---- MODULE Spec2Model ----
(***************************************************************************)
(* update-db (update-db.mjs): applies the SQL scripts named in             *)
(* db/db-updates.json, in order, inside one transaction, and tracks the    *)
(* applied scripts by name and sha256 in the table public.db_updates.      *)
(*                                                                         *)
(* The model covers a sequence of invocations of the program against one   *)
(* database.  Between invocations the operator edits the script directory  *)
(* and the manifest.  One invocation is cut into steps at every awaited    *)
(* database call; each call may succeed or fail.                           *)
(*                                                                         *)
(* Script text is a sequence of tokens; sha256 is modelled by an injective *)
(* positional digest of the token sequence (collision freedom is all the   *)
(* program relies on).  The effect of a script body on the database is     *)
(* recorded per script name as the last body that was executed for it.     *)
(***************************************************************************)
EXTENDS Integers, Sequences, FiniteSets

\* ---------------------------------------------------------------- bounds
MaxManifest == 2
MaxRuns == 2

\* the file names the model knows, in the order of Array.prototype.sort
SortedFileNames ==
    << "my_schema.t RLS.sql", "my_schema.t TABLE.sql",
       "public.orders RLS.sql", "public.orders TABLE.sql",
       "public.users TABLE.sql", "public.users TRIGGER.sql" >>

FileNames == { SortedFileNames[i] : i \in 1..Len(SortedFileNames) }

\* the script names of the migration runs
Names == { "public.orders RLS.sql", "public.orders TABLE.sql" }

\* ---------------------------------------------------------------- tokens
TokSql == "sql"
TokDefaultColumns == "%DEFAULT_COLUMNS%"
TokDefaultTrigger == "%DEFAULT_TRIGGER(s.o)%"
TokColumnsBlock == "default columns block"
TokTriggerBlock == "default trigger block(s.o)"

Contents == { <<TokSql>>, <<TokDefaultColumns, TokSql>> }

VARIABLES
    files,          \* db/db-updates: present file name -> raw content
    updates,        \* db/db-updates.json, field "updates"
    db,             \* committed database state
    tx,             \* the session's open transaction (working copy)
    conn,           \* pgClient: "new", "open", "ended"
    pc,             \* position of the invocation
    argv,           \* command line arguments of the invocation
    alreadyApplied, \* alreadyApplied_db_updates: rows fetched before BEGIN
    idx,            \* position of the for loop in updates (1-based)
    updateCounter,  \* updateCounter
    exitCode,       \* process exit status, -1 while running
    stmts,          \* calls made on pgClient in this invocation, in order
    decisions,      \* per processed entry: "Skip", "Insert", "Update"
    pre,            \* committed database state when the invocation started
    sinceCommit,    \* TRUE while manifest and files are those of the last
                    \* successful --commit run (no edit since)
    rerun,          \* sinceCommit as it was when the invocation started
    runs,           \* number of invocations started
    ignore,         \* db/db-updates.json, field "ignore"
    printed         \* one entry per call of printWarnings: the lines it wrote

vars == << files, updates, db, tx, conn, pc, argv, alreadyApplied, idx,
           updateCounter, exitCode, stmts, decisions, pre, sinceCommit,
           rerun, runs, ignore, printed >>

\* ---------------------------------------------------------- pure helpers
RECURSIVE ReplaceFirst(_, _, _)
\* String.prototype.replace with a non-global pattern: first occurrence only
ReplaceFirst(s, tok, by) ==
    IF s = <<>> THEN <<>>
    ELSE IF Head(s) = tok THEN <<by>> \o Tail(s)
    ELSE <<Head(s)>> \o ReplaceFirst(Tail(s), tok, by)

injectDefaults(query) ==
    LET newQuery == ReplaceFirst(query, TokDefaultColumns, TokColumnsBlock)
    IN  ReplaceFirst(newQuery, TokDefaultTrigger, TokTriggerBlock)

TokCode(t) ==
    CASE t = TokSql -> 1
      [] t = TokDefaultColumns -> 2
      [] t = TokDefaultTrigger -> 3
      [] t = TokColumnsBlock -> 4
      [] t = TokTriggerBlock -> 5
      [] OTHER -> 6

RECURSIVE sha256(_)
\* injective digest of a token sequence
sha256(script) ==
    IF script = <<>> THEN 0
    ELSE TokCode(Head(script)) + 8 * sha256(Tail(script))

existsSync(name) == name \in DOMAIN files

readFileSync(name) == files[name]

\* alreadyApplied_db_updates.find((dbu) => dbu.name === updateScript):
\* index of the first fetched row with that name, 0 when there is none
FindApplied(rows, name) ==
    LET hits == { i \in 1..Len(rows) : rows[i].name = name }
    IN  IF hits = {} THEN 0 ELSE CHOOSE i \in hits : \A j \in hits : i <= j

\* Decide without the comparison of the hashes: a recorded script is always
\* applied again
Decide_NoHashCheck(rows, name, sha) ==
    IF FindApplied(rows, name) # 0 THEN "Update" ELSE "Insert"

\* the three-way decision of the loop body for one manifest entry
Decide(rows, name, sha) ==
    LET i == FindApplied(rows, name)
    IN  IF i # 0 /\ rows[i].sha256 = sha THEN "Skip"
        ELSE IF i # 0 THEN "Update"
        ELSE "Insert"

\* SqlUpdate without the WHERE clause
SqlUpdate_NoWhere(ledger, name, sha) ==
    [ i \in 1..Len(ledger) |-> [ledger[i] EXCEPT !.sha256 = sha] ]

\* UPDATE public.db_updates SET sha256 = $1 ... WHERE name = $2
SqlUpdate(ledger, name, sha) ==
    [ i \in 1..Len(ledger) |->
        IF ledger[i].name = name THEN [ledger[i] EXCEPT !.sha256 = sha]
        ELSE ledger[i] ]

\* INSERT INTO public.db_updates (name, sha256, ...) VALUES ($1, $2, ...)
SqlInsert(ledger, name, sha) == Append(ledger, [name |-> name, sha256 |-> sha])

NoObjects == [n \in {} |-> <<>>]

EmptyDb == [table |-> FALSE, ledger |-> <<>>, objects |-> NoObjects]

NoTx == [open |-> FALSE, ledger |-> <<>>, objects |-> NoObjects]

Manifests == UNION { [1..k -> Names] : k \in 0..MaxManifest }

Directories == UNION { [S -> Contents] : S \in SUBSET Names }

\* The SELECT has no ORDER BY, so the rows come in any order.  The program
\* only looks rows up by name (find), so what can matter is which of the
\* rows of one name comes first: the model varies the order among the rows
\* of each name and keeps the places of the names.
Orderings(rows) ==
    LET R == { rows[i] : i \in 1..Len(rows) }
        Occ(q, r) == Cardinality({ i \in 1..Len(q) : q[i] = r })
    IN  { q \in [1..Len(rows) -> R] :
            /\ \A r \in R : Occ(q, r) = Occ(rows, r)
            /\ \A i \in 1..Len(rows) : q[i].name = rows[i].name }

\* String.prototype.toLowerCase on the arguments the model passes
toLowerCase(arg) ==
    CASE arg = "--COMMIT" -> "--commit"
      [] arg = "--Commit" -> "--commit"
      [] OTHER -> arg

CommandLines == { <<>>, <<"--commit">>, <<"--COMMIT">> }

\* const doCommit = process.argv.find((arg) => arg.toLowerCase() === '--commit')
doCommit == \E i \in 1..Len(argv) : toLowerCase(argv[i]) = "--commit"

\* ------------------------------------------------- consistency warnings
\* a file name as the characters the regular expressions see, cut into
\* runs of letters and the other pieces
NameChars(name) ==
    CASE name = "my_schema.t RLS.sql" ->
            << "my", "_", "schema", ".", "t", " RLS", ".", "sql" >>
      [] name = "my_schema.t TABLE.sql" ->
            << "my", "_", "schema", ".", "t", " TABLE", ".", "sql" >>
      [] name = "public.orders RLS.sql" ->
            << "public", ".", "orders", " RLS", ".", "sql" >>
      [] name = "public.orders TABLE.sql" ->
            << "public", ".", "orders", " TABLE", ".", "sql" >>
      [] name = "public.users TABLE.sql" ->
            << "public", ".", "users", " TABLE", ".", "sql" >>
      [] name = "public.users TRIGGER.sql" ->
            << "public", ".", "users", " TRIGGER", ".", "sql" >>

\* the pieces that [a-zA-Z]* matches
LetterRuns == { "my", "schema", "public", "orders", "users", "t", "sql" }

FirstIndex(S) == IF S = {} THEN 0 ELSE CHOOSE i \in S : \A j \in S : i <= j

\* rxTableName = /(^[a-zA-Z]*?\..*?) TABLE/ : the position of the " TABLE"
\* that ends group 1, 0 when the name does not match
rxTableName(name) ==
    LET c == NameChars(name)
        d == FirstIndex({ i \in 1..Len(c) : c[i] \notin LetterRuns })
    IN  IF d = 0 \/ c[d] # "." THEN 0
        ELSE FirstIndex({ k \in (d+1)..Len(c) : c[k] = " TABLE" })

\* rxRLSName = /(.*?) RLS/ : the position of the " RLS" that ends group 1
rxRLSName(name) ==
    LET c == NameChars(name)
    IN  FirstIndex({ k \in 1..Len(c) : c[k] = " RLS" })

\* match(rx)[1]
Group1(name, pos) == SubSeq(NameChars(name), 1, pos - 1)

\* readdirSync(UPDATE_SCRIPTS_LOCATION), sorted
updateScriptFiles ==
    LET Present(n) == n \in DOMAIN files
    IN  SelectSeq(SortedFileNames, Present)

\* warnNotReferencedScripts with || between the two tests
warnNotReferencedScripts_Or ==
    LET Orphan(f) ==
            \/ ~ \E i \in 1..Len(updates) : updates[i] = f
            \/ ~ \E item \in ignore : item = f
    IN  SelectSeq(updateScriptFiles, Orphan)

\* files neither in updates nor in ignore
warnNotReferencedScripts ==
    LET Orphan(f) ==
            /\ ~ \E i \in 1..Len(updates) : updates[i] = f
            /\ ~ \E item \in ignore : item = f
    IN  SelectSeq(updateScriptFiles, Orphan)

\* TABLE files for which no file has an RLS name with the same group 1
warnTablesWithoutRLS ==
    LET NoRLS(f) ==
            /\ rxTableName(f) # 0
            /\ ~ \E f2 \in DOMAIN files :
                    /\ rxRLSName(f2) # 0
                    /\ Group1(f, rxTableName(f)) = Group1(f2, rxRLSName(f2))
    IN  SelectSeq(updateScriptFiles, NoRLS)

WarningLines(kind, list) ==
    [ i \in 1..Len(list) |-> [kind |-> kind, file |-> list[i]] ]

\* printWarnings(): one line per element of the two lists
printWarnings ==
    printed' = Append(printed,
                  WarningLines("not referenced", warnNotReferencedScripts)
                  \o WarningLines("no RLS", warnTablesWithoutRLS))

\* ------------------------------------------------------------------ Init
Init ==
    /\ files \in Directories
    /\ updates \in Manifests
    /\ db = EmptyDb
    /\ tx = NoTx
    /\ conn = "new"
    /\ pc = "idle"
    /\ argv = <<>>
    /\ alreadyApplied = <<>>
    /\ idx = 1
    /\ updateCounter = 0
    /\ exitCode = -1
    /\ stmts = <<>>
    /\ decisions = <<>>
    /\ pre = EmptyDb
    /\ sinceCommit = FALSE
    /\ rerun = FALSE
    /\ runs = 0
    /\ ignore = {}
    /\ printed = <<>>

\* no process is running and the operator is at the prompt
Stopped == pc = "idle"

\* a fresh process: nothing of the previous invocation survives
ResetRun ==
    /\ tx' = NoTx
    /\ conn' = "new"
    /\ alreadyApplied' = <<>>
    /\ idx' = 1
    /\ updateCounter' = 0
    /\ stmts' = <<>>
    /\ decisions' = <<>>
    /\ printed' = <<>>
    /\ pre' = db

\* process.exit(code): the process stops at once (a pending finally block
\* does not run); the server discards the open transaction of a session
\* that disconnects without COMMIT
Exit(code) ==
    /\ pc' = "done"
    /\ exitCode' = code
    /\ tx' = NoTx

\* one call on pgClient and whether it returned (ok) or threw
Sent(op, entry, name, text, sha, ok) ==
    stmts' = Append(stmts, [op |-> op, entry |-> entry, name |-> name,
                            text |-> text, sha |-> sha, ok |-> ok])

\* what the session sees: its open transaction, else the committed state
SessionLedger == IF tx.open THEN tx.ledger ELSE db.ledger

SessionObjects == IF tx.open THEN tx.objects ELSE db.objects

\* a data statement writes into the open transaction; outside a transaction
\* block the server commits every statement by itself
Write(ledger, objects) ==
    IF tx.open
    THEN /\ tx' = [tx EXCEPT !.ledger = ledger, !.objects = objects]
         /\ UNCHANGED db
    ELSE /\ db' = [db EXCEPT !.ledger = ledger, !.objects = objects]
         /\ UNCHANGED tx

\* OuterCatch that leaves with the status of a successful run
OuterCatch_ExitsZero == Exit(0)

\* catch (err): currentOra.fail(err.message); exit(1)
OuterCatch == Exit(1)

\* ----------------------------------------------------- operator actions
\* the ended process is gone; the operator has seen its status and output
ProcessEnded ==
    /\ pc = "done"
    /\ pc' = "idle"
    /\ exitCode' = -1
    /\ argv' = <<>>
    /\ ResetRun
    /\ rerun' = FALSE
    /\ UNCHANGED << files, updates, ignore, db, sinceCommit, runs >>

\* the operator writes, changes or removes one script file between runs
EditScript ==
    /\ Stopped
    /\ \E d \in Directories :
          /\ d # files
          /\ \E n \in Names :
                \A m \in Names \ {n} :
                    /\ (m \in DOMAIN d) = (m \in DOMAIN files)
                    /\ m \in DOMAIN d => d[m] = files[m]
          /\ files' = d
    /\ pc' = "idle"
    /\ exitCode' = -1
    /\ argv' = <<>>
    /\ ResetRun
    /\ sinceCommit' = FALSE
    /\ rerun' = FALSE
    /\ UNCHANGED << updates, ignore, db, runs >>

\* the operator rewrites db-updates.json between runs
EditManifest ==
    /\ Stopped
    /\ \E m \in Manifests :
          /\ m # updates
          /\ updates' = m
    /\ pc' = "idle"
    /\ exitCode' = -1
    /\ argv' = <<>>
    /\ ResetRun
    /\ sinceCommit' = FALSE
    /\ rerun' = FALSE
    /\ UNCHANGED << files, ignore, db, runs >>

\* ------------------------------------------------------ program actions
\* module top level: argv, environment variables, script directory.
\* A missing variable ends in exit(1); a missing directory is reported and
\* then readdirSync throws, which ends the process with status 1.
Start ==
    /\ Stopped
    /\ runs < MaxRuns
    /\ runs' = runs + 1
    /\ ResetRun
    /\ rerun' = sinceCommit
    /\ \E args \in CommandLines, envSet \in BOOLEAN, dirExists \in BOOLEAN :
          /\ argv' = args
          /\ IF ~envSet THEN pc' = "done" /\ exitCode' = 1
             ELSE IF ~dirExists THEN pc' = "done" /\ exitCode' = 1
             ELSE pc' = "connect" /\ exitCode' = -1
    /\ UNCHANGED << files, updates, ignore, db, sinceCommit >>

\* Connect that goes on to the fetch without manage_db_updates_table
Connect_SkipsManage ==
    /\ pc = "connect"
    /\ \E ok \in BOOLEAN :
          /\ Sent("CONNECT", 0, "", <<>>, 0, ok)
          /\ IF ok THEN /\ conn' = "open"
                        /\ pc' = "fetch"
                        /\ UNCHANGED << exitCode, tx >>
             ELSE OuterCatch /\ UNCHANGED conn
    /\ UNCHANGED << files, updates, db, argv, alreadyApplied, idx,
                    updateCounter, decisions, pre, sinceCommit, rerun, runs >>
    /\ UNCHANGED << ignore, printed >>

\* await pgClient.connect()
Connect ==
    /\ pc = "connect"
    /\ \E ok \in BOOLEAN :
          /\ Sent("CONNECT", 0, "", <<>>, 0, ok)
          /\ IF ok THEN /\ conn' = "open"
                        /\ pc' = "manage"
                        /\ UNCHANGED << exitCode, tx >>
             ELSE OuterCatch /\ UNCHANGED conn
    /\ UNCHANGED << files, updates, db, argv, alreadyApplied, idx,
                    updateCounter, decisions, pre, sinceCommit, rerun, runs >>
    /\ UNCHANGED << ignore, printed >>

\* await manage_db_updates_table(pgClient): one multi-statement query sent
\* outside any transaction block, so its effect is committed when it returns
manage_db_updates_table ==
    /\ pc = "manage"
    /\ \E ok \in BOOLEAN :
          /\ Sent("MANAGE", 0, "", <<>>, 0, ok)
          /\ IF ok THEN /\ db' = [db EXCEPT !.table = TRUE]
                        /\ pc' = "fetch"
                        /\ UNCHANGED << exitCode, tx >>
             ELSE OuterCatch /\ UNCHANGED db
    /\ UNCHANGED << files, updates, conn, argv, alreadyApplied, idx,
                    updateCounter, decisions, pre, sinceCommit, rerun, runs >>
    /\ UNCHANGED << ignore, printed >>

\* const alreadyApplied_db_updates = await query_db_updates(pgClient)
query_db_updates ==
    /\ pc = "fetch"
    /\ \E ok \in BOOLEAN :
          /\ Sent("SELECT", 0, "", <<>>, 0, ok)
          /\ IF ok THEN /\ alreadyApplied' \in Orderings(SessionLedger)
                        /\ pc' = "begin"
                        /\ UNCHANGED << exitCode, tx >>
             ELSE OuterCatch /\ UNCHANGED alreadyApplied
    /\ UNCHANGED << files, updates, db, conn, argv, idx,
                    updateCounter, decisions, pre, sinceCommit, rerun, runs >>
    /\ UNCHANGED << ignore, printed >>

\* Begin that opens no transaction block on the session
Begin_NoTransaction ==
    /\ pc = "begin"
    /\ \E ok \in BOOLEAN :
          /\ Sent("BEGIN", 0, "", <<>>, 0, ok)
          /\ pc' = IF ok THEN "loop" ELSE "catch"
    /\ UNCHANGED << files, updates, db, tx, conn, argv, alreadyApplied, idx,
                    updateCounter, exitCode, decisions, pre, sinceCommit,
                    rerun, runs >>
    /\ UNCHANGED << ignore, printed >>

\* await pgClient.query('BEGIN')
Begin ==
    /\ pc = "begin"
    /\ \E ok \in BOOLEAN :
          /\ Sent("BEGIN", 0, "", <<>>, 0, ok)
          /\ IF ok THEN /\ tx' = [open |-> TRUE, ledger |-> db.ledger,
                                  objects |-> db.objects]
                        /\ pc' = "loop"
             ELSE pc' = "catch" /\ UNCHANGED tx
    /\ UNCHANGED << files, updates, db, conn, argv, alreadyApplied, idx,
                    updateCounter, exitCode, decisions, pre, sinceCommit,
                    rerun, runs >>
    /\ UNCHANGED << ignore, printed >>

InLoop == pc = "loop" /\ idx <= Len(updates)

updateScript == updates[idx]

\* ScriptSha taken after injectDefaults
ScriptSha_Expanded == sha256(injectDefaults(readFileSync(updateScript)))

\* sha256 of the raw file content, taken before injectDefaults
ScriptSha == sha256(readFileSync(updateScript))

\* MissingScript that passes over the entry instead of throwing
MissingScript_Continues ==
    /\ InLoop
    /\ ~existsSync(updateScript)
    /\ idx' = idx + 1
    /\ UNCHANGED << files, updates, db, tx, conn, pc, argv, alreadyApplied,
                    updateCounter, exitCode, stmts, decisions, pre,
                    sinceCommit, rerun, runs >>
    /\ UNCHANGED << ignore, printed >>

\* if (!existsSync(updateScriptFullPath)) throw new Error('FILE NOT FOUND')
MissingScript ==
    /\ InLoop
    /\ ~existsSync(updateScript)
    /\ pc' = "catch"
    /\ UNCHANGED << files, updates, db, tx, conn, argv, alreadyApplied,
                    idx, updateCounter, exitCode, stmts, decisions, pre,
                    sinceCommit, rerun, runs >>
    /\ UNCHANGED << ignore, printed >>

\* already applied with the same sha256: continue
\* SkipScript whose continue does not move on to the next entry
SkipScript_NoAdvance ==
    /\ InLoop
    /\ existsSync(updateScript)
    /\ Decide(alreadyApplied, updateScript, ScriptSha) = "Skip"
    /\ decisions' = Append(decisions, "Skip")
    /\ UNCHANGED << files, updates, db, tx, conn, pc, argv, idx,
                    alreadyApplied, updateCounter, exitCode, stmts, pre,
                    sinceCommit, rerun, runs >>
    /\ UNCHANGED << ignore, printed >>

SkipScript ==
    /\ InLoop
    /\ existsSync(updateScript)
    /\ Decide(alreadyApplied, updateScript, ScriptSha) = "Skip"
    /\ decisions' = Append(decisions, "Skip")
    /\ idx' = idx + 1
    /\ UNCHANGED << files, updates, db, tx, conn, pc, argv,
                    alreadyApplied, updateCounter, exitCode, stmts, pre,
                    sinceCommit, rerun, runs >>
    /\ UNCHANGED << ignore, printed >>

\* updateCounter++; await pgClient.query(script)
RunScript ==
    /\ InLoop
    /\ existsSync(updateScript)
    /\ Decide(alreadyApplied, updateScript, ScriptSha) # "Skip"
    /\ updateCounter' = updateCounter + 1
    /\ LET script == injectDefaults(readFileSync(updateScript))
       IN  \E ok \in BOOLEAN :
              /\ Sent("SCRIPT", idx, updateScript, script, 0, ok)
              /\ IF ok
                 THEN /\ Write(SessionLedger,
                            [n \in DOMAIN SessionObjects \cup {updateScript} |->
                                IF n = updateScript THEN script
                                ELSE SessionObjects[n]])
                      /\ pc' = "ledger"
                 ELSE pc' = "catch" /\ UNCHANGED << db, tx >>
    /\ UNCHANGED << files, updates, conn, argv, alreadyApplied, idx,
                    exitCode, decisions, pre, sinceCommit, rerun, runs >>
    /\ UNCHANGED << ignore, printed >>

\* LedgerUpdate that sends the INSERT for a name found in the fetched rows
LedgerUpdate_SendsInsert ==
    /\ pc = "ledger"
    /\ FindApplied(alreadyApplied, updateScript) # 0
    /\ \E ok \in BOOLEAN :
          /\ Sent("INSERT", idx, updateScript, <<>>, ScriptSha, ok)
          /\ IF ok
             THEN /\ Write(SqlInsert(SessionLedger, updateScript, ScriptSha),
                           SessionObjects)
                  /\ decisions' = Append(decisions, "Update")
                  /\ idx' = idx + 1
                  /\ pc' = "loop"
             ELSE pc' = "catch" /\ UNCHANGED << db, tx, decisions, idx >>
    /\ UNCHANGED << files, updates, conn, argv, alreadyApplied,
                    updateCounter, exitCode, pre, sinceCommit, rerun, runs >>
    /\ UNCHANGED << ignore, printed >>

\* if (alreadyAppliedScript) { UPDATE public.db_updates ...; continue }
LedgerUpdate ==
    /\ pc = "ledger"
    /\ FindApplied(alreadyApplied, updateScript) # 0
    /\ \E ok \in BOOLEAN :
          /\ Sent("UPDATE", idx, updateScript, <<>>, ScriptSha, ok)
          /\ IF ok
             THEN /\ Write(SqlUpdate(SessionLedger, updateScript, ScriptSha),
                           SessionObjects)
                  /\ decisions' = Append(decisions, "Update")
                  /\ idx' = idx + 1
                  /\ pc' = "loop"
             ELSE pc' = "catch" /\ UNCHANGED << db, tx, decisions, idx >>
    /\ UNCHANGED << files, updates, conn, argv, alreadyApplied,
                    updateCounter, exitCode, pre, sinceCommit, rerun, runs >>
    /\ UNCHANGED << ignore, printed >>

\* LedgerInsert whose error is caught by the outer catch, without ROLLBACK
LedgerInsert_NoRollback ==
    /\ pc = "ledger"
    /\ FindApplied(alreadyApplied, updateScript) = 0
    /\ \E ok \in BOOLEAN :
          /\ Sent("INSERT", idx, updateScript, <<>>, ScriptSha, ok)
          /\ IF ok
             THEN /\ Write(SqlInsert(SessionLedger, updateScript, ScriptSha),
                           SessionObjects)
                  /\ decisions' = Append(decisions, "Insert")
                  /\ idx' = idx + 1
                  /\ pc' = "loop"
                  /\ UNCHANGED exitCode
             ELSE OuterCatch /\ UNCHANGED << db, decisions, idx >>
    /\ UNCHANGED << files, updates, conn, argv, alreadyApplied,
                    updateCounter, pre, sinceCommit, rerun, runs >>
    /\ UNCHANGED << ignore, printed >>

\* INSERT INTO public.db_updates (name, sha256, created_by, updated_by)
LedgerInsert ==
    /\ pc = "ledger"
    /\ FindApplied(alreadyApplied, updateScript) = 0
    /\ \E ok \in BOOLEAN :
          /\ Sent("INSERT", idx, updateScript, <<>>, ScriptSha, ok)
          /\ IF ok
             THEN /\ Write(SqlInsert(SessionLedger, updateScript, ScriptSha),
                           SessionObjects)
                  /\ decisions' = Append(decisions, "Insert")
                  /\ idx' = idx + 1
                  /\ pc' = "loop"
             ELSE pc' = "catch" /\ UNCHANGED << db, tx, decisions, idx >>
    /\ UNCHANGED << files, updates, conn, argv, alreadyApplied,
                    updateCounter, exitCode, pre, sinceCommit, rerun, runs >>
    /\ UNCHANGED << ignore, printed >>

LoopDone == pc = "loop" /\ idx > Len(updates)

\* DryRunRollback that sends COMMIT where the code sends ROLLBACK
DryRunRollback_Commits ==
    /\ LoopDone
    /\ ~doCommit
    /\ \E ok \in BOOLEAN :
          /\ Sent("ROLLBACK", 0, "", <<>>, 0, ok)
          /\ IF ok THEN /\ db' = [db EXCEPT !.ledger = SessionLedger,
                                            !.objects = SessionObjects]
                        /\ printWarnings
                        /\ Exit(0)
             ELSE pc' = "catch" /\ UNCHANGED << db, tx, exitCode, printed >>
    /\ UNCHANGED << files, updates, conn, argv, alreadyApplied, idx,
                    updateCounter, decisions, pre, sinceCommit, rerun, runs >>
    /\ UNCHANGED ignore

\* DryRunRollback that prints the warnings before it awaits the ROLLBACK
DryRunRollback_WarnsBefore ==
    /\ LoopDone
    /\ ~doCommit
    /\ printWarnings
    /\ \E ok \in BOOLEAN :
          /\ Sent("ROLLBACK", 0, "", <<>>, 0, ok)
          /\ IF ok THEN Exit(0)
             ELSE pc' = "catch" /\ UNCHANGED << tx, exitCode >>
    /\ UNCHANGED << files, updates, db, conn, argv, alreadyApplied, idx,
                    updateCounter, decisions, pre, sinceCommit, rerun, runs >>
    /\ UNCHANGED ignore

\* if (!doCommit) { await pgClient.query('ROLLBACK'); printWarnings(); exit(0) }
DryRunRollback ==
    /\ LoopDone
    /\ ~doCommit
    /\ \E ok \in BOOLEAN :
          /\ Sent("ROLLBACK", 0, "", <<>>, 0, ok)
          /\ IF ok THEN printWarnings /\ Exit(0)
             ELSE pc' = "catch" /\ UNCHANGED << tx, exitCode, printed >>
    /\ UNCHANGED << files, updates, db, conn, argv, alreadyApplied, idx,
                    updateCounter, decisions, pre, sinceCommit, rerun, runs >>
    /\ UNCHANGED ignore

\* Commit reached in every mode (no test of doCommit before it)
Commit_IgnoresMode ==
    /\ LoopDone
    /\ \E ok \in BOOLEAN :
          /\ Sent("COMMIT", 0, "", <<>>, 0, ok)
          /\ IF ok
             THEN /\ db' = [db EXCEPT !.ledger = SessionLedger,
                                      !.objects = SessionObjects]
                  /\ tx' = NoTx
                  /\ sinceCommit' = TRUE
                  /\ printWarnings
                  /\ pc' = "finally"
             ELSE pc' = "catch" /\ UNCHANGED << db, tx, sinceCommit, printed >>
    /\ UNCHANGED << files, updates, conn, argv, alreadyApplied, idx,
                    updateCounter, exitCode, decisions, pre, rerun, runs >>
    /\ UNCHANGED ignore

\* await pgClient.query('COMMIT'); printWarnings(); info(...)
Commit ==
    /\ LoopDone
    /\ doCommit
    /\ \E ok \in BOOLEAN :
          /\ Sent("COMMIT", 0, "", <<>>, 0, ok)
          /\ IF ok
             THEN /\ db' = [db EXCEPT !.ledger = SessionLedger,
                                      !.objects = SessionObjects]
                  /\ tx' = NoTx
                  /\ sinceCommit' = TRUE
                  /\ printWarnings
                  /\ pc' = "finally"
             ELSE pc' = "catch" /\ UNCHANGED << db, tx, sinceCommit, printed >>
    /\ UNCHANGED << files, updates, conn, argv, alreadyApplied, idx,
                    updateCounter, exitCode, decisions, pre, rerun, runs >>
    /\ UNCHANGED ignore

\* finally { pgClient.end() }  exit(0)
Finally ==
    /\ pc = "finally"
    /\ conn' = "ended"
    /\ Exit(0)
    /\ UNCHANGED << files, updates, db, argv, alreadyApplied, idx,
                    updateCounter, stmts, decisions, pre, sinceCommit,
                    rerun, runs >>
    /\ UNCHANGED << ignore, printed >>

\* CatchRollback that ends the transaction with COMMIT
CatchRollback_Commits ==
    /\ pc = "catch"
    /\ \E ok \in BOOLEAN :
          /\ Sent("ROLLBACK", 0, "", <<>>, 0, ok)
          /\ IF ok THEN /\ db' = [db EXCEPT !.ledger = SessionLedger,
                                            !.objects = SessionObjects]
                        /\ Exit(1)
             ELSE OuterCatch /\ UNCHANGED db
    /\ UNCHANGED << files, updates, conn, argv, alreadyApplied, idx,
                    updateCounter, decisions, pre, sinceCommit, rerun, runs >>
    /\ UNCHANGED << ignore, printed >>

\* catch (err2): await pgClient.query('ROLLBACK'); exit(1).  A ROLLBACK
\* that throws is caught by the outer catch, which exits with 1 as well.
CatchRollback ==
    /\ pc = "catch"
    /\ \E ok \in BOOLEAN :
          /\ Sent("ROLLBACK", 0, "", <<>>, 0, ok)
          /\ IF ok THEN Exit(1) ELSE OuterCatch
    /\ UNCHANGED << files, updates, db, conn, argv, alreadyApplied, idx,
                    updateCounter, decisions, pre, sinceCommit, rerun, runs >>
    /\ UNCHANGED << ignore, printed >>

Next ==
    \/ ProcessEnded
    \/ EditScript
    \/ EditManifest
    \/ Start
    \/ Connect
    \/ manage_db_updates_table
    \/ query_db_updates
    \/ Begin
    \/ MissingScript
    \/ SkipScript
    \/ RunScript
    \/ LedgerUpdate
    \/ LedgerInsert
    \/ DryRunRollback
    \/ Commit
    \/ Finally
    \/ CatchRollback

Spec == Init /\ [][Next]_vars

\* ------------------------------------- runs over a directory that grows
\* The same program run over directories of all the file names the model
\* knows; between runs the operator adds script files.
PairDirectories == UNION { [S -> { <<TokSql>> }] : S \in SUBSET FileNames }

PairInit ==
    /\ files \in PairDirectories
    /\ updates \in { <<>>, << "public.orders TABLE.sql" >> }
    /\ ignore \in { {}, { "public.users TABLE.sql" } }
    /\ db = EmptyDb
    /\ tx = NoTx
    /\ conn = "new"
    /\ pc = "idle"
    /\ argv = <<>>
    /\ alreadyApplied = <<>>
    /\ idx = 1
    /\ updateCounter = 0
    /\ exitCode = -1
    /\ stmts = <<>>
    /\ decisions = <<>>
    /\ pre = EmptyDb
    /\ sinceCommit = FALSE
    /\ rerun = FALSE
    /\ runs = 0
    /\ printed = <<>>

\* the operator puts one more script file into db/db-updates
AddScript ==
    /\ Stopped
    /\ \E n \in FileNames \ DOMAIN files :
          files' = [ m \in DOMAIN files \cup {n} |->
                       IF m = n THEN <<TokSql>> ELSE files[m] ]
    /\ sinceCommit' = FALSE
    /\ UNCHANGED << updates, db, tx, conn, pc, argv, alreadyApplied, idx,
                    updateCounter, exitCode, stmts, decisions, pre, rerun,
                    runs, ignore, printed >>

PairNext ==
    \/ ProcessEnded
    \/ AddScript
    \/ Start
    \/ Connect
    \/ manage_db_updates_table
    \/ query_db_updates
    \/ Begin
    \/ MissingScript
    \/ SkipScript
    \/ RunScript
    \/ LedgerInsert
    \/ DryRunRollback
    \/ Commit
    \/ Finally
    \/ CatchRollback

PairSpec == PairInit /\ [][PairNext]_vars

\* ------------------------------------------------ runs that get their turn
\* a step of the running process: the continuation of an awaited call on
\* pgClient, which the event loop runs once the call has returned
ProgramStep ==
    \/ Connect
    \/ manage_db_updates_table
    \/ query_db_updates
    \/ Begin
    \/ MissingScript
    \/ SkipScript
    \/ RunScript
    \/ LedgerUpdate
    \/ LedgerInsert
    \/ DryRunRollback
    \/ Commit
    \/ Finally
    \/ CatchRollback

\* the operator keeps the manifest and changes script files between runs
FairNext ==
    \/ ProcessEnded
    \/ EditScript
    \/ Start
    \/ ProgramStep

FairSpec == Init /\ [][FairNext]_vars /\ WF_vars(ProgramStep)

\* ---------------------------------------------------- shared vocabulary
Finished == pc = "done"

Range(seq) == { seq[i] : i \in 1..Len(seq) }

EntryOps == {"SCRIPT", "INSERT", "UPDATE"}

\* positions in stmts of the calls with operation op for script name
Calls(op, name) ==
    { i \in 1..Len(stmts) : stmts[i].op = op /\ stmts[i].name = name }

SucceededCall(op) == \E i \in 1..Len(stmts) : stmts[i].op = op /\ stmts[i].ok

RecordsOf(ledger, name) == { i \in 1..Len(ledger) : ledger[i].name = name }

\* ledger records and script-made objects are those from before the run
MigrationUnchanged == db.ledger = pre.ledger /\ db.objects = pre.objects

\* ------------------------------------------------------------------ C1
\* C1 (idempotence): a --commit run made after a successful --commit run,
\* with the same manifest and script contents, executes no script body and
\* writes no ledger record; it skips every entry, repeated entries included.
C1_Idempotence ==
    (rerun /\ doCommit) =>
        /\ \A i \in 1..Len(stmts) : stmts[i].op \notin EntryOps
        /\ \A i \in 1..Len(decisions) : decisions[i] = "Skip"
        /\ pc # "ledger"
        /\ pc = "catch" => ~stmts[Len(stmts)].ok
        /\ (Finished /\ exitCode = 0) => Len(decisions) = Len(updates)

C1_Witness ==
    /\ rerun /\ doCommit /\ Finished /\ exitCode = 0
    /\ Len(updates) = 2 /\ updates[1] = updates[2]
    /\ decisions = << "Skip", "Skip" >>

\* ------------------------------------------------------------------ C2
\* C2 (drift detection): when exactly one manifest script with a ledger
\* record has new content and the others are recorded with their current
\* hash, a successful --commit run executes the new body exactly once, no
\* other body, issues UPDATE and no INSERT for the name, and leaves at most
\* one record for the name, carrying the new hash.
Drifted(n) ==
    /\ n \in DOMAIN files
    /\ RecordsOf(pre.ledger, n) # {}
    /\ \A i \in RecordsOf(pre.ledger, n) :
          pre.ledger[i].sha256 # sha256(files[n])

Recorded(n) ==
    /\ n \in DOMAIN files
    /\ RecordsOf(pre.ledger, n) # {}
    /\ \A i \in RecordsOf(pre.ledger, n) :
          pre.ledger[i].sha256 = sha256(files[n])

C2_DriftDetection ==
    \A n \in Names :
        ( /\ Finished /\ doCommit /\ exitCode = 0
          /\ n \in Range(updates)
          /\ Drifted(n)
          /\ \A m \in Range(updates) \ {n} : Recorded(m) )
        =>
        /\ Cardinality(Calls("SCRIPT", n)) = 1
        /\ \A i \in Calls("SCRIPT", n) : stmts[i].text = injectDefaults(files[n])
        /\ \A m \in Names \ {n} : Calls("SCRIPT", m) = {}
        /\ Calls("UPDATE", n) # {}
        /\ Calls("INSERT", n) = {}
        /\ Cardinality(RecordsOf(db.ledger, n)) <= 1
        /\ \A i \in RecordsOf(db.ledger, n) :
              db.ledger[i].sha256 = sha256(files[n])

\* ------------------------------------------------------------------ C3
\* C3 (dry-run non-persistence): a run without --commit that processed
\* every entry ends its transaction with ROLLBACK, and afterwards the ledger
\* records and the script-made objects are those from before the run.
C3_DryRunNonPersistence ==
    ( /\ Finished /\ ~doCommit
      /\ SucceededCall("BEGIN")
      /\ Len(decisions) = Len(updates) )
    =>
    /\ \E i \in 1..Len(stmts) : stmts[i].op = "ROLLBACK"
    /\ \A i \in 1..Len(stmts) : stmts[i].op # "COMMIT"
    /\ MigrationUnchanged

C3_Witness ==
    /\ Finished /\ ~doCommit /\ exitCode = 0
    /\ "Insert" \in Range(decisions)
    /\ \E i \in 1..Len(stmts) : stmts[i].op = "SCRIPT" /\ stmts[i].ok
    /\ stmts[Len(stmts)].op = "ROLLBACK" /\ stmts[Len(stmts)].ok

\* ------------------------------------------------------------------ C4
\* C4 (atomicity): when the script body or the ledger write of an entry
\* fails, a ROLLBACK is issued afterwards and, once the run has ended, the
\* ledger records and script-made objects are those from before the run.
C4_Atomicity ==
    \A i \in 1..Len(stmts) :
        (Finished /\ stmts[i].op \in EntryOps /\ ~stmts[i].ok) =>
            /\ \E j \in (i+1)..Len(stmts) : stmts[j].op = "ROLLBACK"
            /\ \A j \in (i+1)..Len(stmts) : stmts[j].op \notin EntryOps
            /\ MigrationUnchanged

C4_Witness ==
    /\ Finished
    /\ \E i, j \in 1..Len(stmts) :
          /\ stmts[i].op = "INSERT" /\ stmts[i].ok /\ stmts[i].entry = 1
          /\ stmts[j].op \in EntryOps /\ ~stmts[j].ok /\ stmts[j].entry = 2
    /\ MigrationUnchanged

\* ------------------------------------------------------------------ C5
\* C5 as stated: after a dry run or an aborted run the whole database,
\* the ledger table included, is as it was before the run.
C5_NothingPersists ==
    (Finished /\ ~(doCommit /\ exitCode = 0)) => db = pre

\* C5 as amended: after a dry run or an aborted run the ledger records and
\* the script-made objects are as before the run; the ledger table itself
\* exists from the moment the ensure-ledger step succeeded, in every mode.
C5_OnlyLedgerTablePersists ==
    (Finished /\ ~(doCommit /\ exitCode = 0)) =>
        /\ MigrationUnchanged
        /\ db.table = (pre.table \/ SucceededCall("MANAGE"))

C5_Witness ==
    /\ Finished /\ ~doCommit /\ exitCode = 0
    /\ ~pre.table /\ db.table
    /\ Len(updates) > 0

\* ------------------------------------------------------------------ C6
\* C6 (unique per name): the committed ledger holds at most one record for
\* each script name.
C6_UniquePerName ==
    \A n \in Names : Cardinality(RecordsOf(db.ledger, n)) <= 1

\* ------------------------------------------------------------------ C7
MissingEntries == { i \in 1..Len(updates) : updates[i] \notin DOMAIN files }

FirstMissing == CHOOSE i \in MissingEntries : \A j \in MissingEntries : i <= j

\* C7 as stated: when a manifest entry names an absent file the run ends
\* with a non-zero status, the ledger records and script-made objects are
\* unchanged, and no script body and no ledger write of any entry was
\* executed in the run, the entries before the missing one included.
C7_NoEntryExecuted ==
    (Finished /\ MissingEntries # {}) =>
        /\ exitCode # 0
        /\ MigrationUnchanged
        /\ \A i \in 1..Len(stmts) : stmts[i].op \notin EntryOps

\* C7 as amended: the run ends with status 1 and without COMMIT, the ledger
\* records and script-made objects are unchanged, and no entry at or after
\* the first missing one is processed; the entries before it may have had
\* their bodies and ledger writes executed inside the transaction.
C7_MissingFileAborts ==
    (Finished /\ MissingEntries # {}) =>
        /\ exitCode = 1
        /\ MigrationUnchanged
        /\ Len(decisions) < FirstMissing
        /\ \A i \in 1..Len(stmts) :
              /\ stmts[i].op \in EntryOps => stmts[i].entry < FirstMissing
              /\ stmts[i].op # "COMMIT"

C7_Witness ==
    /\ Finished /\ exitCode = 1
    /\ MissingEntries # {} /\ FirstMissing = 2
    /\ \E i, j \in 1..Len(stmts) :
          /\ stmts[i].op = "SCRIPT" /\ stmts[i].ok /\ stmts[i].entry = 1
          /\ stmts[j].op = "INSERT" /\ stmts[j].ok /\ stmts[j].entry = 1
    /\ \A i \in 1..Len(stmts) : stmts[i].ok
    /\ stmts[Len(stmts)].op = "ROLLBACK"

\* ------------------------------------------------------------------ C8
\* C8 (convergence): once COMMIT has succeeded, every name of the manifest
\* has a ledger record whose hash is the sha256 of the raw content of its
\* file.
C8_Convergence ==
    (doCommit /\ SucceededCall("COMMIT")) =>
        \A i \in 1..Len(updates) :
            /\ updates[i] \in DOMAIN files
            /\ \E j \in RecordsOf(db.ledger, updates[i]) :
                  db.ledger[j].sha256 = sha256(files[updates[i]])

C8_Witness ==
    /\ Finished /\ exitCode = 0 /\ doCommit
    /\ "Skip" \in Range(decisions)
    /\ \E i \in 1..Len(decisions) :
          /\ decisions[i] = "Update"
          /\ Head(files[updates[i]]) = TokDefaultColumns

\* ------------------------------------------------------------------ C9
\* C9 (exit status): the process ends with status 0 exactly when every
\* call on the database succeeded, every manifest entry was processed and
\* the last call was the COMMIT (with --commit) or the ROLLBACK (without);
\* in every other case it ends with status 1.
C9_ExitStatus ==
    Finished =>
        /\ exitCode \in {0, 1}
        /\ exitCode = 0 <=>
              /\ stmts # <<>>
              /\ \A i \in 1..Len(stmts) : stmts[i].ok
              /\ Len(decisions) = Len(updates)
              /\ stmts[Len(stmts)].op = IF doCommit THEN "COMMIT" ELSE "ROLLBACK"

C9_Witness ==
    /\ Finished /\ exitCode = 1
    /\ Len(decisions) = Len(updates)
    /\ \E i \in 1..Len(stmts) : stmts[i].op = "COMMIT" /\ ~stmts[i].ok
    /\ stmts[Len(stmts)].op = "ROLLBACK" /\ ~stmts[Len(stmts)].ok

\* ----------------------------------------------------------------- C10
\* C10 (mode selection): COMMIT is sent at most once in a run, and only
\* with --commit given and after every entry was processed with no failed
\* call; without the flag no COMMIT is sent and a ROLLBACK ends the
\* transaction.
C10_ModeSelection ==
    /\ Cardinality({ i \in 1..Len(stmts) : stmts[i].op = "COMMIT" }) <= 1
    /\ \A i \in 1..Len(stmts) :
          stmts[i].op = "COMMIT" =>
              /\ \E k \in 1..Len(argv) : argv[k] \in {"--commit", "--COMMIT"}
              /\ Len(decisions) = Len(updates)
              /\ \A j \in 1..(i-1) : stmts[j].ok
    /\ (argv = <<>> /\ Finished /\ SucceededCall("BEGIN")) =>
          \E i \in 1..Len(stmts) : stmts[i].op = "ROLLBACK"

C10_Witness ==
    /\ pc = "finally"
    /\ argv = << "--COMMIT" >>
    /\ "Insert" \in Range(decisions)
    /\ stmts[Len(stmts)].op = "COMMIT" /\ stmts[Len(stmts)].ok

\* ----------------------------------------------------------------- C11
\* C11 (resource release): when the process has ended, a connection that
\* was opened has been closed by the client (pgClient.end was called), and
\* a transaction that was opened has been ended by a successful COMMIT or
\* ROLLBACK.
C11_ResourcesReleased ==
    (Finished /\ SucceededCall("CONNECT")) =>
        /\ conn = "ended"
        /\ SucceededCall("BEGIN") =>
              (SucceededCall("COMMIT") \/ SucceededCall("ROLLBACK"))

\* -------------------------------------------------- warning vocabulary
\* how many lines of kind for file the one call of printWarnings wrote
LinesFor(kind, file) ==
    Cardinality({ i \in 1..Len(printed[1]) :
                    printed[1][i].kind = kind /\ printed[1][i].file = file })

\* ----------------------------------------------------------------- C12
\* C12 (orphan warning): a successful run, with or without --commit, writes
\* exactly one "not referenced" line for every file of the directory that
\* is in neither updates nor ignore, and none for any other file.
C12_OrphanWarning ==
    (Finished /\ exitCode = 0) =>
        /\ Len(printed) = 1
        /\ \A f \in FileNames :
              LinesFor("not referenced", f) =
                  IF f \in DOMAIN files /\ f \notin Range(updates)
                                        /\ f \notin ignore
                  THEN 1 ELSE 0

C12_Witness ==
    /\ Finished /\ exitCode = 0 /\ ~doCommit
    /\ \E f \in ignore : f \in DOMAIN files /\ LinesFor("not referenced", f) = 0
    /\ \E f \in DOMAIN files : LinesFor("not referenced", f) = 1
    /\ \E f \in DOMAIN files : f \in Range(updates)

\* ----------------------------------------------------------------- C13
\* the file names '<schema.object> TABLE...' and the '<schema.object> RLS...'
\* names with the same <schema.object>
TableFiles ==
    { "my_schema.t TABLE.sql", "public.orders TABLE.sql",
      "public.users TABLE.sql" }

SiblingsOf(f) ==
    CASE f = "my_schema.t TABLE.sql" -> { "my_schema.t RLS.sql" }
      [] f = "public.orders TABLE.sql" -> { "public.orders RLS.sql" }
      [] OTHER -> {}

\* C13 (access-control pairing): the warnings a run writes hold exactly one
\* "no RLS" line for every TABLE file of the directory that has no RLS
\* sibling in the directory, and none for any other file, whatever updates
\* and ignore list.
C13_Pairing ==
    printed # <<>> =>
        \A f \in FileNames :
            LinesFor("no RLS", f) =
                IF /\ f \in TableFiles
                   /\ f \in DOMAIN files
                   /\ SiblingsOf(f) \cap DOMAIN files = {}
                THEN 1 ELSE 0

\* ----------------------------------------------------------------- C14
AllWarnings ==
    WarningLines("not referenced", warnNotReferencedScripts)
    \o WarningLines("no RLS", warnTablesWithoutRLS)

\* C14 (warning emission): printWarnings runs at most once in a run, only
\* after the final COMMIT or dry-run ROLLBACK has succeeded; a run that ends
\* with status 0 has written all warnings once, a run that ends with
\* another status none; and with warnings pending the entries are decided
\* and the status is set as without them.
C14_WarningEmission ==
    /\ Len(printed) <= 1
    /\ printed # <<>> =>
          /\ pc \in {"finally", "done"}
          /\ \A i \in 1..Len(stmts) : stmts[i].ok
          /\ stmts[Len(stmts)].op = IF doCommit THEN "COMMIT" ELSE "ROLLBACK"
    /\ (Finished /\ exitCode = 0) => printed = << AllWarnings >>
    /\ (Finished /\ exitCode # 0) => printed = <<>>
    /\ AllWarnings # <<>> =>
          /\ \A i \in 1..Len(decisions) :
                decisions[i] = Decide(alreadyApplied, updates[i],
                                      sha256(files[updates[i]]))
          /\ ( /\ Finished /\ stmts # <<>>
               /\ \A i \in 1..Len(stmts) : stmts[i].ok
               /\ Len(decisions) = Len(updates) ) => exitCode = 0

C14_Witness ==
    /\ Finished /\ exitCode = 0 /\ doCommit
    /\ Len(printed) = 1 /\ Len(printed[1]) >= 1
    /\ "Insert" \in Range(decisions)

\* ----------------------------------------------------------------- C16
\* positions in stmts of the calls made for manifest entry k
CallsOfEntry(k) == { i \in 1..Len(stmts) : stmts[i].entry = k }

Fetched(name) == \E r \in 1..Len(alreadyApplied) : alreadyApplied[r].name = name

\* C16 (per-entry protocol): the calls made for the entries come in the
\* order of the manifest; an entry decided Skip has no call; an entry
\* decided Insert or Update has its script body and, right after it, one
\* ledger write, an UPDATE when the fetched rows hold its name and an INSERT
\* otherwise; and a script body is sent only when every earlier entry's
\* calls have returned without error.
C16_PerEntryProtocol ==
    /\ \A i, j \in 1..Len(stmts) :
          (i < j /\ stmts[i].op \in EntryOps /\ stmts[j].op \in EntryOps)
              => stmts[i].entry <= stmts[j].entry
    /\ \A i \in 1..Len(stmts) :
          stmts[i].op \in EntryOps <=> stmts[i].entry # 0
    /\ \A k \in 1..Len(decisions) :
          IF decisions[k] = "Skip" THEN CallsOfEntry(k) = {}
          ELSE \E p \in 1..(Len(stmts) - 1) :
                  /\ CallsOfEntry(k) = {p, p + 1}
                  /\ stmts[p].op = "SCRIPT" /\ stmts[p].ok
                  /\ stmts[p].name = updates[k]
                  /\ stmts[p + 1].ok
                  /\ stmts[p + 1].name = updates[k]
                  /\ stmts[p + 1].op =
                        IF Fetched(updates[k]) THEN "UPDATE" ELSE "INSERT"
                  /\ decisions[k] =
                        IF Fetched(updates[k]) THEN "Update" ELSE "Insert"
    /\ \A p \in 1..Len(stmts) :
          stmts[p].op = "SCRIPT" =>
              /\ Len(decisions) >= stmts[p].entry - 1
              /\ \A i \in 1..(p - 1) : stmts[i].ok

C16_Witness ==
    /\ Finished
    /\ decisions = << "Skip", "Update" >>
    /\ Cardinality(CallsOfEntry(2)) = 2

\* ----------------------------------------------------------------- C17
\* the place of a call in the run: connect, ensure ledger, fetch, BEGIN,
\* the entries, the end of the transaction
Stage(op) ==
    CASE op = "CONNECT" -> 1
      [] op = "MANAGE" -> 2
      [] op = "SELECT" -> 3
      [] op = "BEGIN" -> 4
      [] op \in EntryOps -> 5
      [] OTHER -> 6

\* the calls of a run come in the order connect, ensure ledger, fetch,
\* BEGIN, entries, COMMIT or ROLLBACK, none of the first four skipped or
\* repeated, and the entries' calls are made inside the open transaction
InBracketOrder ==
    /\ stmts # <<>> => stmts[1].op = "CONNECT"
    /\ \A i \in 1..(Len(stmts) - 1) :
          /\ Stage(stmts[i].op) <= Stage(stmts[i + 1].op)
          /\ Stage(stmts[i].op) <= 4 =>
                Stage(stmts[i + 1].op) > Stage(stmts[i].op)
          /\ Stage(stmts[i].op) <= 3 =>
                /\ stmts[i].ok
                /\ Stage(stmts[i + 1].op) = Stage(stmts[i].op) + 1
          /\ Stage(stmts[i + 1].op) = 5 => stmts[i].ok
    /\ pc \in {"loop", "ledger"} => tx.open
    /\ Finished => ~tx.open
    /\ (Finished /\ Calls("BEGIN", "") # {}) =>
          Stage(stmts[Len(stmts)].op) = 6

\* C17 as stated: the calls of every run are in bracket order and every run
\* issues exactly one BEGIN.
C17_ExactlyOneBegin ==
    /\ InBracketOrder
    /\ Finished => Cardinality(Calls("BEGIN", "")) = 1

\* C17 amended: the calls of every run are in bracket order; a run issues
\* at most one BEGIN, and exactly one when the connect, the ensuring of the
\* ledger and the fetch have succeeded.
C17_TransactionBracket ==
    /\ InBracketOrder
    /\ Cardinality(Calls("BEGIN", "")) <= 1
    /\ (Finished /\ SucceededCall("SELECT")) =>
          Cardinality(Calls("BEGIN", "")) = 1

C17_Witness ==
    /\ Finished
    /\ Len(stmts) = 9
    /\ stmts[4].op = "BEGIN"
    /\ stmts[5].op = "SCRIPT" /\ stmts[8].op = "INSERT"
    /\ stmts[9].op = "COMMIT" /\ stmts[9].ok

\* ----------------------------------------------------------------- C18
FailedCalls == { i \in 1..Len(stmts) : ~stmts[i].ok }

\* the run got to a manifest entry whose file is absent
ReachedMissing ==
    /\ SucceededCall("BEGIN")
    /\ Len(decisions) + 1 \in MissingEntries
    /\ CallsOfEntry(Len(decisions) + 1) = {}

\* the call at position i is the dry-run ROLLBACK after the loop
IsDryRunRollback(i) ==
    /\ stmts[i].op = "ROLLBACK"
    /\ Len(decisions) = Len(updates)
    /\ \A j \in 1..(i - 1) : stmts[j].ok

\* C18 (abort path): in an ended run, a failed BEGIN, script body, ledger
\* write, COMMIT or dry-run ROLLBACK is followed by a ROLLBACK as the last
\* call, so that no COMMIT comes after it, and the status is not 0; so it
\* is when a script file was missing; a failed ROLLBACK leaves a status
\* other than 0; a failed connect, ledger setup or fetch leaves a status
\* other than 0 and no BEGIN, COMMIT or ROLLBACK was sent.
C18_AbortPath ==
    Finished =>
        /\ \A i \in FailedCalls :
              /\ exitCode # 0
              /\ (stmts[i].op \in {"BEGIN", "SCRIPT", "INSERT", "UPDATE", "COMMIT"}
                    \/ IsDryRunRollback(i)) =>
                    /\ Len(stmts) = i + 1
                    /\ stmts[i + 1].op = "ROLLBACK"
              /\ stmts[i].op \in {"CONNECT", "MANAGE", "SELECT"} =>
                    \A j \in 1..Len(stmts) :
                        stmts[j].op \notin {"BEGIN", "COMMIT", "ROLLBACK"}
        /\ ReachedMissing =>
              /\ exitCode # 0
              /\ stmts[Len(stmts)].op = "ROLLBACK"
              /\ Calls("COMMIT", "") = {}

C18_Witness ==
    /\ Finished
    /\ exitCode = 1
    /\ Len(stmts) >= 2
    /\ stmts[Len(stmts) - 1].op = "COMMIT" /\ ~stmts[Len(stmts) - 1].ok
    /\ stmts[Len(stmts)].op = "ROLLBACK" /\ ~stmts[Len(stmts)].ok

\* ----------------------------------------------------------------- C19
\* names of the entries the run has decided as d
DecidedAs(d) == { updates[k] : k \in { j \in 1..Len(decisions) : decisions[j] = d } }

\* C19 (ledger frame): against the ledger from before the run, the ledger
\* has every record it had, under the same name; a record with another
\* hash has the name of an entry decided Update, a new record the name of
\* an entry decided Insert; the records of a name that is not in the
\* manifest or was decided Skip have the hash they had.
C19_LedgerFrame ==
    /\ Len(db.ledger) >= Len(pre.ledger)
    /\ \A i \in 1..Len(pre.ledger) :
          /\ db.ledger[i].name = pre.ledger[i].name
          /\ db.ledger[i].sha256 # pre.ledger[i].sha256 =>
                pre.ledger[i].name \in DecidedAs("Update")
          /\ ( \/ pre.ledger[i].name \notin Range(updates)
               \/ pre.ledger[i].name \in DecidedAs("Skip") ) =>
                db.ledger[i] = pre.ledger[i]
    /\ \A i \in (Len(pre.ledger) + 1)..Len(db.ledger) :
          db.ledger[i].name \in DecidedAs("Insert")

C19_Witness ==
    /\ Finished /\ exitCode = 0 /\ doCommit
    /\ Len(pre.ledger) = 2
    /\ db.ledger[1] = pre.ledger[1]
    /\ db.ledger[2].sha256 # pre.ledger[2].sha256
    /\ decisions = << "Update", "Skip" >>

\* ----------------------------------------------------------------- C20
Running == pc \notin {"idle", "done"}

\* how far the run is: the state of the state machine, and in the loop the
\* entry and whether its script body has been executed
Progress(p, i) ==
    CASE p = "connect" -> 100
      [] p = "manage" -> 200
      [] p = "fetch" -> 300
      [] p = "begin" -> 400
      [] p = "loop" -> 500 + 2 * i
      [] p = "ledger" -> 500 + 2 * i + 1
      [] p \in {"catch", "finally"} -> 600
      [] OTHER -> 700

Committed ==
    /\ exitCode = 0 /\ doCommit
    /\ stmts # <<>> /\ stmts[Len(stmts)].op = "COMMIT" /\ stmts[Len(stmts)].ok

DryRunRolledBack ==
    /\ exitCode = 0 /\ ~doCommit
    /\ stmts # <<>> /\ stmts[Len(stmts)].op = "ROLLBACK" /\ stmts[Len(stmts)].ok

Aborted == exitCode \notin {0, -1}

\* C20 (termination): a run whose calls all return ends; it ends as exactly
\* one of committed with status 0, dry-run rolled back with status 0 and
\* aborted with another status; every step of a run moves it forward, an
\* entry is passed once, and no entry has more than one script body sent.
C20_Termination ==
    /\ Running ~> Finished
    /\ [](Finished =>
            /\ Committed \/ DryRunRolledBack \/ Aborted
            /\ ~(Committed /\ DryRunRolledBack)
            /\ ~(Committed /\ Aborted)
            /\ ~(DryRunRolledBack /\ Aborted))
    /\ [](\A k \in 1..Len(updates) :
            Cardinality({ i \in CallsOfEntry(k) : stmts[i].op = "SCRIPT" }) <= 1)
    /\ [][ Running =>
            /\ Progress(pc', idx') > Progress(pc, idx)
            /\ idx' \in {idx, idx + 1}
            /\ Len(decisions') <= idx' - 1 ]_vars

C20_Witness ==
    /\ Finished /\ DryRunRolledBack
    /\ decisions = << "Insert", "Insert" >>
    /\ updates[1] # updates[2]
====
